---- MODULE Spec2Model ----
(***************************************************************************)
(* A model of async-ultimate-sitemap-parser: the httpx web client, the     *)
(* retrying fetch helper, robots.txt sitemap discovery, the recursive      *)
(* sitemap fetcher and the tree entry point.                               *)
(*                                                                         *)
(* The specifications of the module:                                       *)
(*   SpecRetry    - one call of get_url_retry_on_client_errors             *)
(*   SpecDiscover - one call of discover_sitemap_urls_from_robots (and the *)
(*                  validation prologue of sitemap_tree_for_homepage)      *)
(*   SpecFetch    - one call of the sitemap fetcher on a root URL          *)
(*   SpecFetchFair - SpecFetch with the scheduler's fairness               *)
(*   SpecClient   - a sequential history of calls on one HttpxWebClient    *)
(*   SpecClientShared - concurrent calls of tasks on one HttpxWebClient    *)
(*   SpecTree     - one call of sitemap_tree_for_homepage, seed by seed    *)
(* Each specification leaves the variables of the others unchanged.        *)
(***************************************************************************)
EXTENDS Integers, Sequences, FiniteSets, TLC

VARIABLES
    \* ---- get_url_retry_on_client_errors (SpecRetry)
    rpc,        \* "loop" while the helper is in its retry loop, "done" after it returned
    rcalls,     \* the responses web_client.get returned to the helper so far, in order
    rresult,    \* the response the helper returned (NoResponse until it returns)
    \* ---- discover_sitemap_urls_from_robots (SpecDiscover)
    dentry,     \* which entry point was called: "discover" or "tree"
    dhomepage,  \* the homepage_url argument
    dsupplied,  \* TRUE when the caller passed a web_client
    dpc,        \* position of the call
    dclient,    \* "none", "caller" (the supplied client) or "own" (constructed by the call)
    dwebclient, \* the throttle of the web client the call works with
    dsleeps,    \* the durations the client slept for during the call, in order
    drequests,  \* the URLs requested with web_client.get, in order
    dresponse,  \* the response the retrying helper returned (NoResponse before)
    dreturn,    \* the list returned (empty before the return and when it raises)
    dcalls,     \* the methods called on the web client so far, in order
    \* ---- SitemapFetcher (SpecFetch)
    rcb,        \* the recurse_callback argument (NoCallback when none is supplied)
    lcb,        \* the recurse_list_callback argument (NoCallback when none is supplied)
    stack,      \* the nested fetch invocations, outermost first
    links,      \* how many more child references the site may still publish
    requested,  \* the URLs requested from the web client so far
    served,     \* the pages of the url-set documents served so far
    removed,    \* the URLs recurse_list_callback removed from some list so far
    kept,       \* the URLs that some index listed after filtering so far
    tree,       \* the node returned by the outermost fetch (NoNode before)
    \* ---- HttpxWebClient (SpecClient)
    hmax,       \* __max_response_data_length
    htimeout,   \* __timeout
    hproxy,     \* __proxy
    hwait,      \* __wait
    hrandom,    \* __random_wait
    hfirst,     \* __is_first_request
    hclient,    \* __client: NoClient, or the index in htransports of the client held
    htransports,\* the httpx.AsyncClient objects created so far
    htask,      \* the call each task is in
    hlog,       \* the history of the client
    hcallers,   \* the tasks that call the client
    hserver,    \* what a request may end in while its transport stays open
    \* ---- sitemap_tree_for_homepage (SpecTree)
    textra,     \* the extra_known_paths argument
    tcallbacks, \* the recurse_callback and recurse_list_callback arguments
    tdeclared,  \* the sitemap URLs robots.txt discovery returns
    tpc,        \* position of the call after validation
    tseeds,     \* the seeds not yet fetched
    tfetches,   \* the arguments of the fetches started so far, in order
    tchildren,  \* the nodes the fetches returned so far
    troot       \* the root returned (NoNode before)

retryVars == <<rpc, rcalls, rresult>>
discVars  == <<dentry, dhomepage, dsupplied, dpc, dclient, dwebclient, dsleeps,
               drequests, dresponse, dreturn, dcalls>>
fetchVars == <<rcb, lcb, stack, links, requested, served, removed, kept, tree>>
clientVars == <<hmax, htimeout, hproxy, hwait, hrandom, hfirst, hclient, htransports,
                htask, hlog, hcallers, hserver>>
treeVars  == <<textra, tcallbacks, tdeclared, tpc, tseeds, tfetches, tchildren, troot>>
vars      == <<rpc, rcalls, rresult,
               dentry, dhomepage, dsupplied, dpc, dclient, dwebclient, dsleeps,
               drequests, dresponse, dreturn, dcalls,
               rcb, lcb, stack, links, requested, served, removed, kept, tree,
               hmax, htimeout, hproxy, hwait, hrandom, hfirst, hclient, htransports,
               htask, hlog, hcallers, hserver,
               textra, tcallbacks, tdeclared, tpc, tseeds, tfetches, tchildren, troot>>

NoValue == "NoValue"

(***************************************************************************)
(* Sequence helpers.                                                       *)
(***************************************************************************)
SeqsUpTo(S, n) == UNION {[1..k -> S] : k \in 0..n}

Range(s) == {s[i] : i \in 1..Len(s)}

(***************************************************************************)
(* The web client: HttpxWebClient.get classifies what the transport did.   *)
(***************************************************************************)

\* The status codes that designate transient server conditions.
RETRYABLE_HTTP_STATUS_CODES == {429, 500, 502, 503, 504}

\* The status codes the modelled servers answer with.
StatusCodes == {200, 404, 429, 503}

\* What one request can end in: a timeout, another httpx.HTTPError (connection
\* failure, DNS failure, redirect loop), or a response with a status code.
\* `body` identifies the content served.
TransportOutcomeOf(codes, bodies) ==
    {[kind |-> "timeout", code |-> 0, body |-> NoValue],
     [kind |-> "http_error", code |-> 0, body |-> NoValue]}
    \cup {[kind |-> "status", code |-> c,
           body |-> IF 200 <= c /\ c < 300 THEN b ELSE NoValue]
            : c \in codes, b \in bodies}

TransportOutcome(bodies) == TransportOutcomeOf(StatusCodes, bodies)

SuccessResponse(code, body) ==
    [type |-> "success", code |-> code, body |-> body, retryable |-> FALSE]

ErrorResponse(code, retryable) ==
    [type |-> "error", code |-> code, body |-> NoValue, retryable |-> retryable]

\* No response yet.
NoResponse ==
    [type |-> "none", code |-> 0, body |-> NoValue, retryable |-> FALSE]

IsErrorResponse(resp) == resp.type = "error"

\* get that takes every status outside 2xx for a transient condition.
HttpxGet_AllStatusRetryable(outcome) ==
    IF outcome.kind = "timeout" THEN ErrorResponse(0, TRUE)
    ELSE IF outcome.kind = "http_error" THEN ErrorResponse(0, FALSE)
    ELSE IF 200 <= outcome.code /\ outcome.code < 300
         THEN SuccessResponse(outcome.code, outcome.body)
         ELSE ErrorResponse(outcome.code, TRUE)

\* HttpxWebClient.get: the response for one transport outcome.
HttpxGet(outcome) ==
    IF outcome.kind = "timeout" THEN ErrorResponse(0, TRUE)
    ELSE IF outcome.kind = "http_error" THEN ErrorResponse(0, FALSE)
    ELSE IF 200 <= outcome.code /\ outcome.code < 300
         THEN SuccessResponse(outcome.code, outcome.body)
         ELSE ErrorResponse(outcome.code, outcome.code \in RETRYABLE_HTTP_STATUS_CODES)

(***************************************************************************)
(* The retrying fetch helper, get_url_retry_on_client_errors.              *)
(***************************************************************************)

\* The fixed attempt cap of the helper.
RETRY_COUNT == 5

\* The helper whose loop runs one iteration short.
RetryAgain_OffByOne(resp, attempts) ==
    IsErrorResponse(resp) /\ resp.retryable /\ attempts < RETRY_COUNT - 1

\* The helper whose loop runs one iteration too many.
RetryAgain_NoCap(resp, attempts) ==
    IsErrorResponse(resp) /\ resp.retryable /\ attempts < RETRY_COUNT + 1

\* After `attempts` calls of get, the last of which returned resp: TRUE when
\* the helper calls get again, FALSE when it returns resp.
RetryAgain(resp, attempts) ==
    IsErrorResponse(resp) /\ resp.retryable /\ attempts < RETRY_COUNT

\* The bodies a server of SpecRetry serves.
RetryBodies == {"b1", "b2"}

RetryIdle ==
    /\ rpc = "idle" /\ rcalls = <<>> /\ rresult = NoResponse

RetryInit ==
    /\ rpc = "loop" /\ rcalls = <<>> /\ rresult = NoResponse

\* One iteration of the helper's loop: one web_client.get, then retry or return.
RetryGet ==
    /\ rpc = "loop"
    /\ \E o \in TransportOutcome(RetryBodies) :
         LET resp == HttpxGet(o)
             n    == Len(rcalls) + 1
         IN /\ rcalls' = Append(rcalls, resp)
            /\ IF RetryAgain(resp, n)
               THEN /\ rpc' = "loop"
                    /\ rresult' = rresult
               ELSE /\ rpc' = "done"
                    /\ rresult' = resp
    /\ UNCHANGED <<discVars, fetchVars, clientVars, treeVars>>


(***************************************************************************)
(* URLs.  A URL string is modelled by what urlparse makes of it: a scheme, *)
(* a host and a path (a sequence of text pieces, "/" being one piece).     *)
(***************************************************************************)
Url(scheme, host, path) == [scheme |-> scheme, host |-> host, path |-> path]

\* is_http_url: an absolute URL with scheme http or https and a host.
is_http_url(url) ==
    /\ url.scheme \in {"http", "https"}
    /\ url.host # ""

\* strip_url_to_homepage: the origin (scheme and host) of the URL.
strip_url_to_homepage(url) == Url(url.scheme, url.host, <<>>)

EndsWithSlash(path) == Len(path) > 0 /\ path[Len(path)] = "/"

\* The robots.txt URL made from the homepage URL as given, its path kept.
RobotsTxtUrl_KeepPath(homepage_url) ==
    LET slashed == IF ~EndsWithSlash(homepage_url.path)
                   THEN Url(homepage_url.scheme, homepage_url.host,
                            Append(homepage_url.path, "/"))
                   ELSE homepage_url
    IN Url(slashed.scheme, slashed.host, Append(slashed.path, "robots.txt"))

\* discover_sitemap_urls_from_robots, lines 46-55: the robots.txt URL of a
\* homepage URL.
RobotsTxtUrl(homepage_url) ==
    LET stripped == strip_url_to_homepage(homepage_url)
        home     == IF homepage_url # stripped THEN stripped ELSE homepage_url
        slashed  == IF ~EndsWithSlash(home.path)
                    THEN Url(home.scheme, home.host, Append(home.path, "/"))
                    ELSE home
    IN Url(slashed.scheme, slashed.host, Append(slashed.path, "robots.txt"))

\* The homepage_url arguments of the model: three absolute HTTP(S) URLs (a
\* bare origin, one with a trailing slash, one with a path and a query), and
\* four strings that are not.
HomepageUrls ==
    {Url("https", "example.com", <<>>),
     Url("https", "example.com", <<"/">>),
     Url("http", "example.com", <<"/", "page", "?x=1">>),
     Url("ftp", "example.com", <<"/">>),
     Url("", "", <<"/", "page">>),
     Url("https", "", <<"/", "page">>),
     Url("", "", <<>>)}

(***************************************************************************)
(* robots.txt.  A line is modelled by its lexical parts: optional          *)
(* surrounding whitespace, the text before the colon, and the text after   *)
(* it (a URL string, or nothing).                                          *)
(***************************************************************************)
SitemapA  == Url("http", "example.com", <<"/", "a.xml">>)
SitemapB  == Url("https", "example.com", <<"/", "b.xml">>)
RelativeR == Url("", "", <<"/", "r.xml">>)
EmptyText == Url("", "", <<>>)

Line(pad, key, value) == [pad |-> pad, key |-> key, value |-> value]

RobotsLines ==
    {Line(FALSE, k, v) : k \in {"Sitemap", "SITE-MAP", "User-agent"},
                         v \in {SitemapA, SitemapB, RelativeR}}
    \cup {Line(TRUE, "Sitemap", SitemapA), Line(FALSE, "Sitemap", EmptyText)}

\* The longest robots.txt of the model, in lines.
MaxLines == 3

RobotsBodies == SeqsUpTo(RobotsLines, MaxLines)

\* str.lower on the keys of the model.
Lower(key) ==
    CASE key = "Sitemap"    -> "sitemap"
      [] key = "SITE-MAP"   -> "site-map"
      [] key = "User-agent" -> "user-agent"
      [] OTHER              -> key

\* str.strip: the surrounding whitespace removed.
StripLine(line) == [line EXCEPT !.pad = FALSE]

\* The regular expression ^site-?map:\s*(.+?)$ with re.IGNORECASE, searched
\* in a line: TRUE when it matches (group 1 is then line.value).
SitemapMatch(line) ==
    /\ ~line.pad
    /\ Lower(line.key) \in {"sitemap", "site-map"}
    /\ line.value # EmptyText

\* OrderedDict: d[key] = True keeps the position of a key already present.
OrderedInsert(keys, key) ==
    IF key \in Range(keys) THEN keys ELSE Append(keys, key)

\* The scan that stops at the first directive whose value is no HTTP(S) URL.
RECURSIVE ExtractFrom_StopAtInvalid(_, _)
ExtractFrom_StopAtInvalid(lines, sitemap_urls) ==
    IF lines = <<>> THEN sitemap_urls
    ELSE LET line == StripLine(Head(lines))
         IN IF SitemapMatch(line)
            THEN IF is_http_url(line.value)
                 THEN ExtractFrom_StopAtInvalid(Tail(lines),
                                                OrderedInsert(sitemap_urls, line.value))
                 ELSE sitemap_urls
            ELSE ExtractFrom_StopAtInvalid(Tail(lines), sitemap_urls)

\* discover_sitemap_urls_from_robots, lines 76-89: the loop over the lines,
\* from the keys collected so far.
RECURSIVE ExtractFrom(_, _)
ExtractFrom(lines, sitemap_urls) ==
    IF lines = <<>> THEN sitemap_urls
    ELSE LET line == StripLine(Head(lines))
         IN IF SitemapMatch(line)
            THEN IF is_http_url(line.value)
                 THEN ExtractFrom(Tail(lines), OrderedInsert(sitemap_urls, line.value))
                 ELSE ExtractFrom(Tail(lines), sitemap_urls)
            ELSE ExtractFrom(Tail(lines), sitemap_urls)

\* ungzipped_response_content of a plain-text response: its lines.
ungzipped_response_content(response) == response.body

\* How a call ends: it returns a list, or an exception leaves it.
Returned(urls) == [raised |-> FALSE, urls |-> urls]
Raised         == [raised |-> TRUE, urls |-> <<>>]

\* discover_sitemap_urls_from_robots that passes an error response on to the
\* parser instead of returning early.
DiscoverResult_NoErrorCheck(response) ==
    IF IsErrorResponse(response) /\ response.code = 404
    THEN Returned(<<>>)
    ELSE IF IsErrorResponse(response) THEN Raised
    ELSE Returned(ExtractFrom(ungzipped_response_content(response), <<>>))

\* discover_sitemap_urls_from_robots, lines 68-89: the list returned for
\* the response of the retrying helper.
DiscoverResult(response) ==
    IF IsErrorResponse(response)
    THEN Returned(<<>>)
    ELSE Returned(ExtractFrom(ungzipped_response_content(response), <<>>))

(***************************************************************************)
(* The sitemap type model.                                                 *)
(***************************************************************************)
Node(variant, url, reason, children, pages) ==
    [variant |-> variant, url |-> url, reason |-> reason,
     children |-> children, pages |-> pages]

NoNode == Node("none", "", "", <<>>, <<>>)

InvalidSitemap(url, reason) == Node("invalid", url, reason, <<>>, <<>>)

IndexSitemap(url, children) == Node("index", url, "", children, <<>>)

PagesSitemap(url, pages) == Node("pages", url, "", <<>>, pages)

RECURSIVE Concat(_)
Concat(seqs) == IF seqs = <<>> THEN <<>> ELSE Head(seqs) \o Concat(Tail(seqs))

\* all_sitemaps: depth-first pre-order, a node before its children.
RECURSIVE all_sitemaps(_)
all_sitemaps(node) ==
    <<node>> \o Concat([i \in 1..Len(node.children) |-> all_sitemaps(node.children[i])])

\* all_pages: the pages of the url-set leaves, in the same walk.
RECURSIVE all_pages(_)
all_pages(node) ==
    IF node.variant = "pages" THEN node.pages
    ELSE Concat([i \in 1..Len(node.children) |-> all_pages(node.children[i])])

(***************************************************************************)
(* The sitemap fetcher.                                                    *)
(***************************************************************************)

\* The sitemap URLs of the modelled site; the fetch starts at RootUrl.
FetchUrls == {"a.xml", "b.xml", "c.xml", "d.xml"}

RootUrl == "a.xml"

\* The fixed maximum of recursion_level.
MAX_RECURSION_LEVEL == 2

\* How many child references the documents of the modelled site hold in all.
MaxLinks == 3

\* The one page a url-set document at url lists.
PageOf(url) == [sitemap |-> url, loc |-> "page"]

\* Caller-supplied callbacks.  A recurse_callback returns false for the URLs
\* in `urls` at recursion levels >= from_level; a recurse_list_callback
\* removes the URLs in `urls` from the lists of parents at levels >= from_level.
Callback(urls, from_level) == [supplied |-> TRUE, urls |-> urls, from_level |-> from_level]

NoCallback == [supplied |-> FALSE, urls |-> {}, from_level |-> 0]

\* The callback arguments of the model: none, a recurse_callback that stops
\* b.xml below level 1, a recurse_list_callback that removes b.xml from the
\* lists of the indexes below the root, and both callbacks at once.
CallbackConfigs ==
    {<<NoCallback, NoCallback>>,
     <<Callback({"b.xml"}, 2), NoCallback>>,
     <<NoCallback, Callback({"b.xml"}, 1)>>,
     <<Callback({"c.xml"}, 0), Callback({"b.xml"}, 0)>>}

recurse_callback(cb, url, recursion_level, parent_urls) ==
    ~(url \in cb.urls /\ recursion_level >= cb.from_level)

RECURSIVE Without(_, _)
Without(urls, drop) ==
    IF urls = <<>> THEN <<>>
    ELSE IF Head(urls) \in drop THEN Without(Tail(urls), drop)
    ELSE <<Head(urls)>> \o Without(Tail(urls), drop)

recurse_list_callback(cb, urls, recursion_level, parent_urls) ==
    IF recursion_level >= cb.from_level THEN Without(urls, cb.urls) ELSE urls

\* One invocation of fetch.
Frame(url, recursion_level, parent_urls, sitemap_chain) ==
    [url |-> url, recursion_level |-> recursion_level,
     parent_urls |-> parent_urls, sitemap_chain |-> sitemap_chain,
     pc |-> "check",        \* "check", "fetch", "children" or "done"
     gets |-> 0,            \* calls of the retrying helper made by this invocation
     lcb_calls |-> 0,       \* calls of recurse_list_callback made by this invocation
     discovered |-> <<>>,   \* the child URLs the document lists
     listed |-> <<>>,       \* the child URLs after recurse_list_callback
     pending |-> <<>>,      \* the listed child URLs not yet fetched
     children |-> <<>>,     \* the nodes of the children attached so far
     result |-> NoNode]

\* Steps 1-3 without the cycle check.
CheckResult_NoCycleCheck(f, cb) ==
    IF f.recursion_level > MAX_RECURSION_LEVEL
    THEN InvalidSitemap(f.url, "max recursion depth exceeded")
    ELSE IF cb.supplied /\ ~recurse_callback(cb, f.url, f.recursion_level, f.parent_urls)
    THEN InvalidSitemap(f.url, "filtered by callback")
    ELSE NoNode

\* Steps 1-3 without the depth check.
CheckResult_NoDepthCheck(f, cb) ==
    IF f.url \in f.parent_urls
    THEN InvalidSitemap(f.url, "cycle detected")
    ELSE IF cb.supplied /\ ~recurse_callback(cb, f.url, f.recursion_level, f.parent_urls)
    THEN InvalidSitemap(f.url, "filtered by callback")
    ELSE NoNode

\* Steps 1-3 of fetch: the placeholder returned without fetching, or NoNode
\* when the invocation goes on to fetch.
CheckResult(f, cb) ==
    IF f.url \in f.parent_urls
    THEN InvalidSitemap(f.url, "cycle detected")
    ELSE IF f.recursion_level > MAX_RECURSION_LEVEL
    THEN InvalidSitemap(f.url, "max recursion depth exceeded")
    ELSE IF cb.supplied /\ ~recurse_callback(cb, f.url, f.recursion_level, f.parent_urls)
    THEN InvalidSitemap(f.url, "filtered by callback")
    ELSE NoNode

\* The child list fetched when the list callback's result is ignored until
\* after the children were fetched.
ChildrenToFetch_Unfiltered(cb, f, urls) == urls

\* Step 7: the child URLs an index fetches.
ChildrenToFetch(cb, f, urls) ==
    IF cb.supplied
    THEN recurse_list_callback(cb, urls, f.recursion_level, f.parent_urls)
    ELSE urls

\* The placeholder of an invocation the recurse_callback rejected.
IsFiltered(node) == node.variant = "invalid" /\ node.reason = "filtered by callback"

\* An index that drops the children that came back invalid.
AttachChild_DropInvalid(children, node) ==
    IF node.variant = "invalid" THEN children ELSE Append(children, node)

\* An index that stores the latest child first.
AttachChild_Prepend(children, node) ==
    IF IsFiltered(node) THEN children ELSE <<node>> \o children

\* Step 7: a recursive result becomes a child whatever its validity, a
\* failed fetch included.  A URL the recurse_callback rejected leaves no
\* node under the index that listed it: test_filter_callback counts five
\* sitemaps, the two rejected ones not among them.
AttachChild(children, node) ==
    IF IsFiltered(node) THEN children ELSE Append(children, node)

\* Step 7: the invocation an index starts for its child URL u.
ChildFrame(f, u) ==
    Frame(u, f.recursion_level + 1, f.parent_urls \cup {f.url},
          Append(f.sitemap_chain, f.url))

Top == stack[Len(stack)]

SetTop(f) == [stack EXCEPT ![Len(stack)] = f]

FetchInit ==
    /\ \E config \in CallbackConfigs : rcb = config[1] /\ lcb = config[2]
    /\ stack = <<Frame(RootUrl, 0, {}, <<>>)>>
    /\ links = MaxLinks
    /\ requested = {}
    /\ served = {}
    /\ removed = {}
    /\ kept = {}
    /\ tree = NoNode

\* Steps 1-3: cycle check, depth check, recurse_callback.
FetchCheck ==
    /\ stack # <<>> /\ Top.pc = "check"
    /\ LET r == CheckResult(Top, rcb)
       IN /\ stack' = SetTop(IF r = NoNode
                             THEN [Top EXCEPT !.pc = "fetch"]
                             ELSE [Top EXCEPT !.pc = "done", !.result = r])
    /\ UNCHANGED <<rcb, lcb, links, requested, served, removed, kept, tree>>
    /\ UNCHANGED <<retryVars, discVars, clientVars, treeVars>>

\* Step 4 failed: the helper ended in an error response, a non-retryable
\* one (a 404) or the last retryable one when its attempts ran out.
FetchError ==
    /\ stack # <<>> /\ Top.pc = "fetch"
    /\ \E resp \in {ErrorResponse(404, FALSE), ErrorResponse(503, TRUE)} :
         /\ IsErrorResponse(resp)
         /\ stack' = SetTop([Top EXCEPT !.pc = "done", !.gets = @ + 1,
                                !.result = InvalidSitemap(Top.url, "fetch failed")])
    /\ requested' = requested \cup {Top.url}
    /\ UNCHANGED <<rcb, lcb, links, served, removed, kept, tree>>
    /\ UNCHANGED <<retryVars, discVars, clientVars, treeVars>>

\* Steps 4-7 for content that is no index: unrecognized content, or a leaf
\* format with its pages.
FetchLeaf ==
    /\ stack # <<>> /\ Top.pc = "fetch"
    /\ \E format \in {"unrecognized", "urlset"} :
         /\ stack' = SetTop([Top EXCEPT !.pc = "done", !.gets = @ + 1,
                               !.result = IF format = "urlset"
                                          THEN PagesSitemap(Top.url, <<PageOf(Top.url)>>)
                                          ELSE InvalidSitemap(Top.url, "unrecognized format")])
         /\ served' = IF format = "urlset" THEN served \cup {PageOf(Top.url)} ELSE served
    /\ requested' = requested \cup {Top.url}
    /\ UNCHANGED <<rcb, lcb, links, removed, kept, tree>>
    /\ UNCHANGED <<retryVars, discVars, clientVars, treeVars>>

\* Steps 4-7 for an index: the child URLs are parsed and the list callback,
\* when supplied, replaces the list once, before any child is fetched.
FetchIndex ==
    /\ stack # <<>> /\ Top.pc = "fetch"
    /\ \E urls \in SeqsUpTo(FetchUrls, links) :
         LET todo == ChildrenToFetch(lcb, Top, urls)
         IN /\ stack' = SetTop([Top EXCEPT !.pc = "children", !.gets = @ + 1,
                                  !.lcb_calls = IF lcb.supplied THEN @ + 1 ELSE @,
                                  !.discovered = urls,
                                  !.listed = todo,
                                  !.pending = todo])
            /\ links' = links - Len(urls)
            /\ kept' = kept \cup Range(todo)
            /\ removed' = IF lcb.supplied
                          THEN removed \cup (Range(urls) \ Range(
                                   recurse_list_callback(lcb, urls, Top.recursion_level,
                                                         Top.parent_urls)))
                          ELSE removed
    /\ requested' = requested \cup {Top.url}
    /\ UNCHANGED <<rcb, lcb, served, tree>>
    /\ UNCHANGED <<retryVars, discVars, clientVars, treeVars>>

\* Step 7: the recursive invocation for the next listed child.
FetchRecurse ==
    /\ stack # <<>> /\ Top.pc = "children" /\ Top.pending # <<>>
    /\ stack' = Append(SetTop([Top EXCEPT !.pending = Tail(@)]),
                       ChildFrame(Top, Head(Top.pending)))
    /\ UNCHANGED <<rcb, lcb, links, requested, served, removed, kept, tree>>
    /\ UNCHANGED <<retryVars, discVars, clientVars, treeVars>>

\* Steps 7-8: every listed child was fetched; the index node is constructed.
FetchFinish ==
    /\ stack # <<>> /\ Top.pc = "children" /\ Top.pending = <<>>
    /\ stack' = SetTop([Top EXCEPT !.pc = "done",
                          !.result = IndexSitemap(Top.url, Top.children)])
    /\ UNCHANGED <<rcb, lcb, links, requested, served, removed, kept, tree>>
    /\ UNCHANGED <<retryVars, discVars, clientVars, treeVars>>

\* Step 8: the invocation returns its node, to the parent index, which
\* attaches it unless the recurse_callback rejected the URL, or to the caller.
FetchReturn ==
    /\ stack # <<>> /\ Top.pc = "done"
    /\ IF Len(stack) = 1
       THEN /\ tree' = Top.result
            /\ stack' = <<>>
       ELSE LET parent == stack[Len(stack) - 1]
            IN /\ stack' = [SubSeq(stack, 1, Len(stack) - 1) EXCEPT ![Len(stack) - 1] =
                              [parent EXCEPT !.children = AttachChild(@, Top.result)]]
               /\ tree' = tree
    /\ UNCHANGED <<rcb, lcb, links, requested, served, removed, kept>>
    /\ UNCHANGED <<retryVars, discVars, clientVars, treeVars>>

(***************************************************************************)
(* HttpxWebClient as an object: its configuration, its lazily created      *)
(* httpx.AsyncClient (the transport), and the calls made on it.            *)
(***************************************************************************)

\* The tasks that may call the client.
Tasks == {"t1", "t2"}

\* HttpxWebClient.__HTTP_REQUEST_TIMEOUT, the timeout of a new client.
HTTP_REQUEST_TIMEOUT == "default"

\* The arguments of set_timeout.
Timeouts == {"t1"}

\* proxy=None, and the arguments of set_proxy: a proxy URL, and a string
\* httpx.AsyncClient rejects with a ValueError (which is no httpx.HTTPError).
NoProxy == "none"

Proxies == {"p1", "bad"}

\* The wait of the constructor after `wait or 0`: none, or two seconds.
Waits == {0, 2}

\* max_response_data_length: None, or an integer.
NoCap == [none |-> TRUE, n |-> 0]

Cap(n) == [none |-> FALSE, n |-> n]

\* The arguments of set_max_response_data_length.
Caps == {NoCap, Cap(0), Cap(2)}

\* The longest response body of the client model, in bytes.
MaxBody == 3

\* How many calls are made on one client.
MaxCalls == 3

Content(n) == [i \in 1..n |-> "x"]

ClientBodies == {Content(1), Content(MaxBody)}

\* The statuses the servers of the client model answer with.
ClientStatusCodes == {200, 299, 300, 404, 503}

\* The url arguments of get: one httpx can request, and one it cannot parse
\* (client.get raises httpx.InvalidURL, which is no httpx.HTTPError).
GetUrls == {"ok", "malformed"}

\* `if self.__max_response_data_length:` - None and 0 are both false.
Truthy(cap) == ~cap.none /\ cap.n # 0

\* content[:n] of Python.
Slice(content, n) ==
    IF n >= 0
    THEN SubSeq(content, 1, IF n < Len(content) THEN n ELSE Len(content))
    ELSE SubSeq(content, 1, IF Len(content) + n > 0 THEN Len(content) + n ELSE 0)

\* How a call of get ends: with a response object that holds the cap it was
\* constructed with, or with an exception that leaves get.
NoResult == [raised |-> FALSE, resp |-> NoResponse, cap |-> NoCap]

GetRaise == [raised |-> TRUE, resp |-> NoResponse, cap |-> NoCap]

\* get, lines 193-214: the object returned for what the request ended in.
GetReturn(outcome, max_response_data_length) ==
    LET resp == HttpxGet(outcome)
    IN [raised |-> FALSE, resp |-> resp,
        cap |-> IF resp.type = "success" THEN max_response_data_length ELSE NoCap]

\* raw_data that reads the cap of the client instead of the one the
\* response was constructed with.
raw_data_Live(result) ==
    IF Truthy(hmax)
    THEN Slice(result.resp.body, hmax.n)
    ELSE result.resp.body

\* HttpxWebClientSuccessResponse.raw_data, lines 57-63.
raw_data(result) ==
    IF Truthy(result.cap)
    THEN Slice(result.resp.body, result.cap.n)
    ELSE result.resp.body

\* __wait_if_needed that sleeps before the first request too.
WaitIfNeeded_NoFirstSkip(wait, is_first_request) ==
    IF wait = 0 THEN [sleep |-> FALSE, first |-> is_first_request]
    ELSE [sleep |-> TRUE, first |-> FALSE]

\* __wait_if_needed that tests the first-request flag and leaves it set.
WaitIfNeeded_KeepFlag(wait, is_first_request) ==
    IF wait = 0 THEN [sleep |-> FALSE, first |-> is_first_request]
    ELSE IF is_first_request THEN [sleep |-> FALSE, first |-> is_first_request]
    ELSE [sleep |-> TRUE, first |-> is_first_request]

\* __wait_if_needed, lines 167-172: whether the call goes on to sleep, and
\* the first-request flag it leaves.
WaitIfNeeded(wait, is_first_request) ==
    IF wait = 0 THEN [sleep |-> FALSE, first |-> is_first_request]
    ELSE IF is_first_request THEN [sleep |-> FALSE, first |-> FALSE]
    ELSE [sleep |-> TRUE, first |-> is_first_request]

\* A closed interval of real numbers of seconds, from lo / den to hi / den.
Seconds(lo, hi, den) == [lo |-> lo, hi |-> hi, den |-> den]

\* Exactly w seconds.
Exactly(w) == Seconds(w, w, 1)

\* The duration field of an entry that is no sleep.
NoSleep == Exactly(0)

\* __wait_if_needed, lines 174-178: the durations asyncio.sleep may be called
\* with.  wait_f is 1.0, or with random_wait any real number that
\* random.uniform(0.5, 1.5) gives: wait * wait_f is then any duration from
\* wait / 2 to 3 * wait / 2.
SleepDurations(wait, random_wait) ==
    IF random_wait THEN Seconds(wait, 3 * wait, 2) ELSE Exactly(wait)

\* An httpx.AsyncClient built with the defaults of the class, whatever the
\* client is configured with.
Transport_DefaultConfig(timeout, proxy) ==
    [timeout |-> HTTP_REQUEST_TIMEOUT, proxy |-> NoProxy, state |-> "open",
     requests |-> 0, acloses |-> 0]

\* An httpx.AsyncClient: the timeout and proxy it was built with, how many
\* requests it was given and how often aclose was called on it.
Transport(timeout, proxy) ==
    [timeout |-> timeout, proxy |-> proxy, state |-> "open",
     requests |-> 0, acloses |-> 0]

\* self.__client is None.
NoClient == 0

\* close that keeps its reference to the closed client.
ClientAfterClose_Kept(client) == client

\* close, line 220: self.__client = None.
ClientAfterClose(client) == NoClient

\* A call in progress on a task.
IdleTask == [pc |-> "idle", op |-> "", url |-> "", tr |-> 0]

Arg(s, cap) == [s |-> s, cap |-> cap]

NoArg == Arg("", NoCap)

NoOutcome == [kind |-> "none", code |-> 0, body |-> NoValue]

\* An entry of the history of the client: a call, a sleep, a request given
\* to a transport, an aclose, a return or an exception leaving a call.
Event(ev, task, op, arg, tr, d, outcome, result) ==
    [ev |-> ev, task |-> task, op |-> op, arg |-> arg, tr |-> tr, d |-> d,
     timeout |-> htimeout, proxy |-> hproxy, cap |-> hmax,
     outcome |-> outcome, result |-> result]

CallEvent(t, op, arg) == Event("call", t, op, arg, 0, NoSleep, NoOutcome, NoResult)

CallsMade == Cardinality({i \in 1..Len(hlog) : hlog[i].ev = "call"})

MayCall(t) ==
    /\ t \in hcallers
    /\ htask[t].pc = "idle"
    /\ CallsMade < MaxCalls

ClientIdle ==
    /\ hmax = NoCap /\ htimeout = HTTP_REQUEST_TIMEOUT /\ hproxy = NoProxy
    /\ hwait = 0 /\ hrandom = FALSE /\ hfirst = TRUE
    /\ hclient = NoClient /\ htransports = <<>>
    /\ htask = [t \in Tasks |-> IdleTask] /\ hlog = <<>> /\ hcallers = {}
    /\ hserver = {}

\* HttpxWebClient.__init__, lines 113-121, used by one task.
ClientInit ==
    /\ hmax = NoCap
    /\ htimeout = HTTP_REQUEST_TIMEOUT
    /\ hproxy = NoProxy
    /\ hwait \in Waits
    /\ hrandom \in BOOLEAN
    /\ hfirst = TRUE
    /\ hclient = NoClient
    /\ htransports = <<>>
    /\ htask = [t \in Tasks |-> IdleTask]
    /\ hlog = <<>>
    /\ hcallers = {"t1"}
    /\ hserver = TransportOutcomeOf(ClientStatusCodes, ClientBodies)

\* What a request of a shared client ends in while its transport stays
\* open: a timeout, another httpx.HTTPError, or a 200 with a body.
SharedOutcomes == TransportOutcomeOf({200}, {Content(MaxBody)})

\* HttpxWebClient.__init__, lines 113-121, shared by the tasks.
ClientInitShared ==
    /\ hmax = NoCap
    /\ htimeout = HTTP_REQUEST_TIMEOUT
    /\ hproxy = NoProxy
    /\ hwait \in Waits
    /\ hrandom \in BOOLEAN
    /\ hfirst = TRUE
    /\ hclient = NoClient
    /\ htransports = <<>>
    /\ htask = [t \in Tasks |-> IdleTask]
    /\ hlog = <<>>
    /\ hcallers = Tasks
    /\ hserver = SharedOutcomes

\* get, lines 189-191: _get_client (lines 123-133), then client.get(url) up
\* to the point where the request is on its way.  `log` is the history with
\* what the call did before.  An httpx.AsyncClient whose aclose has begun
\* refuses a request with a RuntimeError (which is no httpx.HTTPError).
GetIssue(t, url, log) ==
    IF hclient = NoClient /\ hproxy = "bad"
    THEN /\ hlog' = Append(log, Event("raise", t, "get", NoArg, 0, NoSleep, NoOutcome, GetRaise))
         /\ htask' = [htask EXCEPT ![t] = IdleTask]
         /\ UNCHANGED <<hclient, htransports>>
    ELSE LET transports == IF hclient = NoClient
                           THEN Append(htransports, Transport(htimeout, hproxy))
                           ELSE htransports
             c          == IF hclient = NoClient THEN Len(transports) ELSE hclient
         IN /\ hclient' = c
            /\ IF url = "malformed"
               THEN /\ htransports' = transports
                    /\ hlog' = Append(log, Event("raise", t, "get", NoArg, c, NoSleep,
                                                 NoOutcome, GetRaise))
                    /\ htask' = [htask EXCEPT ![t] = IdleTask]
               ELSE IF transports[c].state # "open"
               THEN /\ htransports' = transports
                    /\ hlog' = Append(log, Event("raise", t, "get", Arg("closed", NoCap),
                                                 c, NoSleep, NoOutcome, GetRaise))
                    /\ htask' = [htask EXCEPT ![t] = IdleTask]
               ELSE /\ htransports' = [transports EXCEPT ![c].requests = @ + 1]
                    /\ hlog' = Append(log, Event("request", t, "get", NoArg, c, NoSleep,
                                                 NoOutcome, NoResult))
                    /\ htask' = [htask EXCEPT ![t] =
                                    [pc |-> "inflight", op |-> "get", url |-> url, tr |-> c]]

\* get, lines 187-191: __wait_if_needed up to its sleep, or, when it does
\* not sleep, on to the request.
GetCall(t) ==
    /\ MayCall(t)
    /\ \E url \in GetUrls :
         LET w   == WaitIfNeeded(hwait, hfirst)
             log == Append(hlog, CallEvent(t, "get", Arg(url, NoCap)))
         IN /\ hfirst' = w.first
            /\ IF w.sleep
               THEN /\ hlog' = Append(log, Event("sleep", t, "get", NoArg, 0,
                                                 SleepDurations(hwait, hrandom),
                                                 NoOutcome, NoResult))
                    /\ htask' = [htask EXCEPT ![t] =
                                    [pc |-> "sleep", op |-> "get", url |-> url, tr |-> 0]]
                    /\ UNCHANGED <<hclient, htransports>>
               ELSE GetIssue(t, url, log)
    /\ UNCHANGED <<hmax, htimeout, hproxy, hwait, hrandom, hcallers, hserver>>
    /\ UNCHANGED <<retryVars, discVars, fetchVars, treeVars>>

\* get, lines 189-191 after the sleep of __wait_if_needed.
GetWake(t) ==
    /\ htask[t].pc = "sleep"
    /\ GetIssue(t, htask[t].url, hlog)
    /\ UNCHANGED <<hmax, htimeout, hproxy, hwait, hrandom, hfirst, hcallers, hserver>>
    /\ UNCHANGED <<retryVars, discVars, fetchVars, treeVars>>

\* client.get(url), line 191: what a request that is out may end in.  When
\* aclose was called on the transport meanwhile, the request may still end
\* as it would have (the answer or the timeout came first), or the
\* connection is closed under it and client.get raises an httpx.HTTPError
\* that is no timeout (httpx.ReadError).
RequestOutcomes(transport, server) ==
    IF transport.state = "open"
    THEN server
    ELSE server \cup {[kind |-> "http_error", code |-> 0, body |-> NoValue]}

\* get, lines 193-214: the request ended; the response is classified and
\* returned.
GetRespond(t) ==
    /\ htask[t].pc = "inflight"
    /\ \E o \in RequestOutcomes(htransports[htask[t].tr], hserver) :
         hlog' = Append(hlog, Event("return", t, "get", NoArg, htask[t].tr, NoSleep,
                                    o, GetReturn(o, hmax)))
    /\ htask' = [htask EXCEPT ![t] = IdleTask]
    /\ UNCHANGED <<hmax, htimeout, hproxy, hwait, hrandom, hfirst, hclient,
                   htransports, hcallers, hserver>>
    /\ UNCHANGED <<retryVars, discVars, fetchVars, treeVars>>

\* close, lines 218-219: nothing to do without a client; otherwise aclose
\* is called on it, and the call is suspended in it.  aclose suspends only
\* when it has an established connection to close, which takes a client
\* that is open and was given a request.
CloseCall(t) ==
    /\ MayCall(t)
    /\ LET log == Append(hlog, CallEvent(t, "close", NoArg))
       IN IF hclient = NoClient
          THEN /\ hlog' = Append(log, Event("return", t, "close", NoArg, 0, NoSleep,
                                            NoOutcome, NoResult))
               /\ UNCHANGED <<htask, htransports>>
          ELSE /\ htransports[hclient].state = "open"
               /\ htransports[hclient].requests >= 1
               /\ hlog' = Append(log, Event("aclose", t, "close", NoArg, hclient, NoSleep,
                                            NoOutcome, NoResult))
               /\ htransports' = [htransports EXCEPT ![hclient].acloses = @ + 1,
                                                     ![hclient].state = "closed"]
               /\ htask' = [htask EXCEPT ![t] =
                               [pc |-> "closing", op |-> "close", url |-> "", tr |-> hclient]]
    /\ UNCHANGED <<hmax, htimeout, hproxy, hwait, hrandom, hfirst, hclient, hcallers, hserver>>
    /\ UNCHANGED <<retryVars, discVars, fetchVars, treeVars>>

\* close, lines 218-220, run to its end without a suspension: aclose has no
\* established connection to wait for (none was opened, the one opened is
\* gone, or a request of another task is out and has not connected yet), or
\* aclose was called on this client before and httpx ignores the call.
\* After a get that built the client and gave it no request this is the
\* only way a close runs.
CloseAtOnce(t) ==
    /\ MayCall(t)
    /\ hclient # NoClient
    /\ hlog' = Append(Append(Append(hlog, CallEvent(t, "close", NoArg)),
                             Event("aclose", t, "close", NoArg, hclient, NoSleep,
                                   NoOutcome, NoResult)),
                      Event("return", t, "close", NoArg, hclient, NoSleep,
                            NoOutcome, NoResult))
    /\ htransports' = [htransports EXCEPT ![hclient].acloses = @ + 1,
                                          ![hclient].state = "closed"]
    /\ hclient' = ClientAfterClose(hclient)
    /\ UNCHANGED <<hmax, htimeout, hproxy, hwait, hrandom, hfirst, htask, hcallers, hserver>>
    /\ UNCHANGED <<retryVars, discVars, fetchVars, treeVars>>

\* close, line 220: aclose returned.
CloseDone(t) ==
    /\ htask[t].pc = "closing"
    /\ hclient' = ClientAfterClose(hclient)
    /\ hlog' = Append(hlog, Event("return", t, "close", NoArg, htask[t].tr, NoSleep,
                                  NoOutcome, NoResult))
    /\ htask' = [htask EXCEPT ![t] = IdleTask]
    /\ UNCHANGED <<hmax, htimeout, hproxy, hwait, hrandom, hfirst, htransports, hcallers, hserver>>
    /\ UNCHANGED <<retryVars, discVars, fetchVars, treeVars>>

\* set_timeout, lines 143-146.
SetTimeout(t) ==
    /\ MayCall(t)
    /\ \E timeout \in Timeouts :
         /\ htimeout' = timeout
         /\ hlog' = Append(hlog, CallEvent(t, "set_timeout", Arg(timeout, NoCap)))
    /\ UNCHANGED <<hmax, hproxy, hwait, hrandom, hfirst, hclient, htransports,
                   htask, hcallers, hserver>>
    /\ UNCHANGED <<retryVars, discVars, fetchVars, treeVars>>

\* set_proxy, line 155.
SetProxy(t) ==
    /\ MayCall(t)
    /\ \E proxy \in Proxies :
         /\ hproxy' = proxy
         /\ hlog' = Append(hlog, CallEvent(t, "set_proxy", Arg(proxy, NoCap)))
    /\ UNCHANGED <<hmax, htimeout, hwait, hrandom, hfirst, hclient, htransports,
                   htask, hcallers, hserver>>
    /\ UNCHANGED <<retryVars, discVars, fetchVars, treeVars>>

\* set_max_response_data_length, line 160.
SetMaxResponseDataLength(t) ==
    /\ MayCall(t)
    /\ \E cap \in Caps :
         /\ hmax' = cap
         /\ hlog' = Append(hlog, CallEvent(t, "set_max_response_data_length",
                                           Arg("", cap)))
    /\ UNCHANGED <<htimeout, hproxy, hwait, hrandom, hfirst, hclient, htransports,
                   htask, hcallers, hserver>>
    /\ UNCHANGED <<retryVars, discVars, fetchVars, treeVars>>

(***************************************************************************)
(* discover_sitemap_urls_from_robots as a process, and the validation      *)
(* prologue of sitemap_tree_for_homepage.                                  *)
(***************************************************************************)
\* What the throttle of a web client is made of: its wait, its random_wait
\* and its first-request flag.
WebClient(wait, random_wait, is_first_request) ==
    [wait |-> wait, random_wait |-> random_wait, is_first_request |-> is_first_request]

DiscIdle ==
    /\ dentry = "none" /\ dhomepage = EmptyText /\ dsupplied = FALSE
    /\ dpc = "idle" /\ dclient = "none" /\ drequests = <<>>
    /\ dwebclient = WebClient(0, FALSE, TRUE) /\ dsleeps = <<>>
    /\ dresponse = NoResponse /\ dreturn = <<>> /\ dcalls = <<>>

\* The web clients a call may work with: the default one, which has no
\* wait, or one of the caller: without a wait, new with a wait, or used
\* before with a wait and random_wait.
WebClients(supplied) ==
    IF supplied
    THEN {WebClient(0, FALSE, TRUE), WebClient(2, FALSE, TRUE), WebClient(2, TRUE, FALSE)}
    ELSE {WebClient(0, FALSE, TRUE)}

DiscInit ==
    /\ dentry \in {"discover", "tree"}
    /\ dhomepage \in HomepageUrls
    /\ dsupplied \in BOOLEAN
    /\ dpc = "start"
    /\ dclient = "none"
    /\ dwebclient \in WebClients(dsupplied)
    /\ dsleeps = <<>>
    /\ drequests = <<>>
    /\ dresponse = NoResponse
    /\ dreturn = <<>>
    /\ dcalls = <<>>

\* The prologue that makes the default client before it validates.
ValidateStep_ClientFirst(homepage_url, supplied) ==
    IF ~is_http_url(homepage_url)
    THEN [pc |-> "raised", client |-> IF supplied THEN "none" ELSE "own"]
    ELSE [pc |-> "fetch", client |-> IF supplied THEN "caller" ELSE "own"]

\* discover_sitemap_urls_from_robots, lines 43-60: validation, then the
\* default client when none was supplied.
ValidateStep(homepage_url, supplied) ==
    IF ~is_http_url(homepage_url)
    THEN [pc |-> "raised", client |-> "none"]
    ELSE [pc |-> "fetch", client |-> IF supplied THEN "caller" ELSE "own"]

DiscValidate ==
    /\ dentry = "discover" /\ dpc = "start"
    /\ LET v == ValidateStep(dhomepage, dsupplied)
       IN /\ dpc' = v.pc
          /\ dclient' = v.client
    /\ UNCHANGED <<dentry, dhomepage, dsupplied, dwebclient, dsleeps, drequests, dresponse,
                   dreturn, dcalls>>
    /\ UNCHANGED <<retryVars, fetchVars, clientVars, treeVars>>

\* sitemap_tree_for_homepage validates its homepage_url before anything else.
TreeValidateStep(homepage_url, supplied) ==
    IF ~is_http_url(homepage_url)
    THEN [pc |-> "raised", client |-> "none"]
    ELSE [pc |-> "seeding", client |-> IF supplied THEN "caller" ELSE "own"]

TreeValidate ==
    /\ dentry = "tree" /\ dpc = "start"
    /\ LET v == TreeValidateStep(dhomepage, dsupplied)
       IN /\ dpc' = v.pc
          /\ dclient' = v.client
    /\ UNCHANGED <<dentry, dhomepage, dsupplied, dwebclient, dsleeps, drequests, dresponse,
                   dreturn, dcalls>>
    /\ UNCHANGED <<retryVars, fetchVars, clientVars, treeVars>>

\* The function that closes the client it used before it returns.
ClientCallsAtExit_Close(response) == <<"close">>

\* discover_sitemap_urls_from_robots, lines 68-89: the methods called on the
\* web client between the helper's return and the function's: none.
ClientCallsAtExit(response) == <<>>

\* web_client.get as the retrying helper calls it (lines 64-66): the client
\* may first sleep (HttpxWebClient.get, line 187), and then has the request
\* out (line 191); the call is suspended at both.
DiscCall ==
    /\ dentry = "discover" /\ dpc = "fetch"
    /\ LET w == WaitIfNeeded(dwebclient.wait, dwebclient.is_first_request)
       IN /\ dwebclient' = [dwebclient EXCEPT !.is_first_request = w.first]
          /\ dcalls' = Append(dcalls, "get")
          /\ IF w.sleep
             THEN /\ dpc' = "sleep"
                  /\ dsleeps' = Append(dsleeps, SleepDurations(dwebclient.wait,
                                                               dwebclient.random_wait))
                  /\ UNCHANGED drequests
             ELSE /\ dpc' = "inflight"
                  /\ drequests' = Append(drequests, RobotsTxtUrl(dhomepage))
                  /\ UNCHANGED dsleeps
    /\ UNCHANGED <<dentry, dhomepage, dsupplied, dclient, dresponse, dreturn>>
    /\ UNCHANGED <<retryVars, fetchVars, clientVars, treeVars>>

\* The sleep of the client is over: the request goes out.
DiscWake ==
    /\ dentry = "discover" /\ dpc = "sleep"
    /\ dpc' = "inflight"
    /\ drequests' = Append(drequests, RobotsTxtUrl(dhomepage))
    /\ UNCHANGED <<dentry, dhomepage, dsupplied, dclient, dwebclient, dsleeps,
                   dresponse, dreturn, dcalls>>
    /\ UNCHANGED <<retryVars, fetchVars, clientVars, treeVars>>

\* The request ended and get returned its response to the helper: the
\* helper calls get again, or returns, and then the rest of the function
\* (lines 68-89) runs to its return.
DiscGet ==
    /\ dentry = "discover" /\ dpc = "inflight"
    /\ \E o \in TransportOutcome(RobotsBodies) :
         LET resp == HttpxGet(o)
             n    == Len(drequests)
         IN IF RetryAgain(resp, n)
            THEN /\ dpc' = "fetch"
                 /\ UNCHANGED <<dresponse, dreturn, dcalls>>
            ELSE /\ dresponse' = resp
                 /\ dcalls' = dcalls \o ClientCallsAtExit(resp)
                 /\ LET result == DiscoverResult(resp)
                    IN IF result.raised
                       THEN dpc' = "raised" /\ dreturn' = dreturn
                       ELSE dpc' = "returned" /\ dreturn' = result.urls
    /\ UNCHANGED <<dentry, dhomepage, dsupplied, dclient, dwebclient, dsleeps, drequests>>
    /\ UNCHANGED <<retryVars, fetchVars, clientVars, treeVars>>


(***************************************************************************)
(* The tree entry point, sitemap_tree_for_homepage: the seeds it fetches.  *)
(***************************************************************************)

\* The conventional default paths tried on every site.
DefaultPaths == <<"sitemap.xml", "sitemap_index.xml">>

\* The paths a caller may pass in extra_known_paths.
ExtraPaths == {"custom_sitemap.xml", "maps/extra.xml"}

\* The sitemap lists robots.txt discovery may return.
DeclaredLists ==
    {<<>>, <<SitemapA>>, <<SitemapB>>, <<SitemapA, SitemapB>>, <<SitemapB, SitemapA>>}

\* A path resolved against the origin of the homepage URL.
OriginUrl(homepage_url, path) ==
    Url(homepage_url.scheme, homepage_url.host, <<"/", path>>)

Seed(url, source) == [url |-> url, source |-> source]

\* The orders in which a set may be iterated.
SeqsOf(S) ==
    {s \in SeqsUpTo(S, Cardinality(S)) : Len(s) = Cardinality(S) /\ Range(s) = S}

\* The seeds of a call: the sitemaps robots.txt declares, the default paths
\* and extra_known_paths in the order `extra`.
SeedsOf(homepage_url, declared, extra) ==
    [i \in 1..Len(declared) |-> Seed(declared[i], "robots")]
    \o [i \in 1..Len(DefaultPaths) |->
           Seed(OriginUrl(homepage_url, DefaultPaths[i]), "default")]
    \o [i \in 1..Len(extra) |-> Seed(OriginUrl(homepage_url, extra[i]), "extra")]

\* The entry point that reports a missing seed whatever its source.
Quiet404_Never(source) == FALSE

\* quiet_404 of a seed: true for default and extra paths, whose existence is
\* speculative, false for the sitemaps robots.txt declares.
Quiet404(source) == source # "robots"

\* The arguments of the fetch started for a seed.
SeedFetch(seed, web_client, callbacks) ==
    [url |-> seed.url,
     web_client |-> web_client,
     recursion_level |-> 0,
     parent_urls |-> {},
     quiet_404 |-> Quiet404(seed.source),
     recurse_callback |-> callbacks[1],
     recurse_list_callback |-> callbacks[2],
     sitemap_chain |-> <<>>]

\* What the fetch of a seed may come back with.
SeedNodes(url) ==
    {InvalidSitemap(url, "fetch failed"), PagesSitemap(url, <<PageOf(url)>>)}

TreeIdle ==
    /\ textra = {} /\ tcallbacks = <<NoCallback, NoCallback>> /\ tdeclared = <<>>
    /\ tpc = "idle" /\ tseeds = <<>> /\ tfetches = <<>> /\ tchildren = <<>>
    /\ troot = NoNode

TreeInit ==
    /\ textra \in SUBSET ExtraPaths
    /\ tcallbacks \in CallbackConfigs
    /\ tdeclared \in DeclaredLists
    /\ tpc = "start"
    /\ tseeds = <<>>
    /\ tfetches = <<>>
    /\ tchildren = <<>>
    /\ troot = NoNode

\* Robots discovery returned; the seed list is built.
TreeSeeds ==
    /\ dentry = "tree" /\ dpc = "seeding" /\ tpc = "start"
    /\ \E extra \in SeqsOf(textra) :
         tseeds' = SeedsOf(dhomepage, tdeclared, extra)
    /\ tpc' = "fetching"
    /\ UNCHANGED <<textra, tcallbacks, tdeclared, tfetches, tchildren, troot>>
    /\ UNCHANGED <<retryVars, discVars, fetchVars, clientVars>>

\* The fetch of the next seed, from its start to the node it returns.
TreeFetchSeed ==
    /\ tpc = "fetching" /\ tseeds # <<>>
    /\ tfetches' = Append(tfetches, SeedFetch(Head(tseeds), dclient, tcallbacks))
    /\ \E node \in SeedNodes(Head(tseeds).url) :
         tchildren' = Append(tchildren, node)
    /\ tseeds' = Tail(tseeds)
    /\ UNCHANGED <<textra, tcallbacks, tdeclared, tpc, troot>>
    /\ UNCHANGED <<retryVars, discVars, fetchVars, clientVars>>

\* Every seed was fetched: the synthetic root index is returned.
TreeReturn ==
    /\ tpc = "fetching" /\ tseeds = <<>>
    /\ troot' = IndexSitemap(dhomepage, tchildren)
    /\ tpc' = "returned"
    /\ UNCHANGED <<textra, tcallbacks, tdeclared, tseeds, tfetches, tchildren>>
    /\ UNCHANGED <<retryVars, discVars, fetchVars, clientVars>>

(***************************************************************************)
(* Specifications.                                                         *)
(***************************************************************************)
FetchIdle ==
    /\ rcb = NoCallback /\ lcb = NoCallback /\ stack = <<>> /\ links = 0
    /\ requested = {} /\ served = {} /\ removed = {} /\ kept = {}
    /\ tree = NoNode

RetryNext == RetryGet

InitRetry == RetryInit /\ DiscIdle /\ FetchIdle /\ ClientIdle /\ TreeIdle

SpecRetry == InitRetry /\ [][RetryNext]_vars

DiscNext == DiscValidate \/ TreeValidate \/ DiscCall \/ DiscWake \/ DiscGet

InitDiscover == DiscInit /\ RetryIdle /\ FetchIdle /\ ClientIdle /\ TreeIdle

SpecDiscover == InitDiscover /\ [][DiscNext]_vars


FetchNext ==
    \/ FetchCheck \/ FetchError \/ FetchLeaf \/ FetchIndex
    \/ FetchRecurse \/ FetchFinish \/ FetchReturn

InitFetch == FetchInit /\ RetryIdle /\ DiscIdle /\ ClientIdle /\ TreeIdle

SpecFetch == InitFetch /\ [][FetchNext]_vars

\* One flow of control runs the fetch: a step that can be taken is taken.
SpecFetchFair == SpecFetch /\ WF_vars(FetchNext)

ClientNext ==
    \E t \in Tasks :
        \/ GetCall(t) \/ GetWake(t) \/ GetRespond(t)
        \/ CloseCall(t) \/ CloseAtOnce(t) \/ CloseDone(t)
        \/ SetTimeout(t) \/ SetProxy(t) \/ SetMaxResponseDataLength(t)

InitClient == ClientInit /\ RetryIdle /\ DiscIdle /\ FetchIdle /\ TreeIdle

\* One HttpxWebClient used by one task: a sequential history of calls.
SpecClient == InitClient /\ [][ClientNext]_vars

InitClientShared == ClientInitShared /\ RetryIdle /\ DiscIdle /\ FetchIdle /\ TreeIdle

\* The calls of tasks that share a client: get and close.
SharedNext ==
    \E t \in Tasks :
        \/ GetCall(t) \/ GetWake(t) \/ GetRespond(t)
        \/ CloseCall(t) \/ CloseAtOnce(t) \/ CloseDone(t)

\* One HttpxWebClient shared by the tasks: their calls interleave at the
\* awaits (the sleep, the request and aclose).
SpecClientShared == InitClientShared /\ [][SharedNext]_vars

TreeNext == TreeValidate \/ TreeSeeds \/ TreeFetchSeed \/ TreeReturn

InitTree == DiscInit /\ dentry = "tree" /\ TreeInit /\ RetryIdle /\ FetchIdle /\ ClientIdle

SpecTree == InitTree /\ [][TreeNext]_vars

(***************************************************************************)
(* Claims about the sitemap fetcher (SpecFetch, SpecFetchFair).            *)
(***************************************************************************)
FetchDone == stack = <<>> /\ tree # NoNode

CyclePlaceholder(url) == InvalidSitemap(url, "cycle detected")

\* In the subtree of node, every child whose URL is node's own or one of its
\* ancestors' is the cycle placeholder, and its parent is an index node.
RECURSIVE CycleChildrenArePlaceholders(_, _)
CycleChildrenArePlaceholders(node, ancestors) ==
    \A i \in 1..Len(node.children) :
        LET child == node.children[i]
        IN /\ node.variant = "index"
           /\ child.url \in (ancestors \cup {node.url}) => child = CyclePlaceholder(child.url)
           /\ CycleChildrenArePlaceholders(child, ancestors \cup {node.url})

\* C1: cycle placeholder.  An invocation of fetch for a URL that is in its
\* parent_urls ends, once checked, in InvalidSitemap(url, "cycle detected")
\* without having called the web client; the index that listed the URL stays
\* a valid index node and holds that placeholder as its child.
C1_CyclePlaceholder ==
    /\ \A i \in 1..Len(stack) :
          LET f == stack[i]
          IN /\ (f.url \in f.parent_urls /\ f.pc # "check")
                   => /\ f.pc = "done"
                      /\ f.result = CyclePlaceholder(f.url)
                      /\ f.gets = 0
             /\ \A k \in 1..Len(f.children) :
                   f.children[k].url \in (f.parent_urls \cup {f.url})
                       => f.children[k] = CyclePlaceholder(f.children[k].url)
    /\ tree # NoNode => CycleChildrenArePlaceholders(tree, {})

\* A references B and B references A: the tree is A with the valid child B,
\* whose child for A is the cycle placeholder; A was requested once only.
C1_Witness ==
    /\ FetchDone
    /\ tree = IndexSitemap("a.xml",
                <<IndexSitemap("b.xml", <<CyclePlaceholder("a.xml")>>)>>)
    /\ requested = {"a.xml", "b.xml"}

\* The invocations that went past the checks of steps 1-3 to fetch their URL.
NestedFetches ==
    Cardinality({i \in 1..Len(stack) :
                    stack[i].pc \in {"fetch", "children"} \/ stack[i].gets > 0})

\* C2: termination.  Under the sequential scheduling of the awaits, every
\* fetch returns a finished tree, whatever the documents link to; and at no
\* time are more than MAX_RECURSION_LEVEL + 1 nested invocations fetching
\* (an invocation at level MAX_RECURSION_LEVEL + 1 returns its placeholder
\* without fetching).
C2_Termination ==
    /\ <>FetchDone
    /\ [](/\ NestedFetches <= MAX_RECURSION_LEVEL + 1
          /\ \A i \in 1..Len(stack) : stack[i].recursion_level <= MAX_RECURSION_LEVEL + 1)

\* A chain of four distinct index URLs: the walk ended with the fourth cut
\* by the depth check, three fetches deep.
C2_Witness ==
    /\ FetchDone
    /\ tree = IndexSitemap("a.xml",
                <<IndexSitemap("b.xml",
                    <<IndexSitemap("c.xml",
                        <<InvalidSitemap("d.xml", "max recursion depth exceeded")>>)>>)>>)
    /\ requested = {"a.xml", "b.xml", "c.xml"}

ChildUrls(children) == [i \in 1..Len(children) |-> children[i].url]

\* The URLs of `urls` that leave a node under the index f: those whose
\* invocation the recurse_callback, when one is supplied, does not reject.
\* Without a recurse_callback these are all of them.
Attached(f, urls) == SelectSeq(urls, LAMBDA u : ~IsFiltered(CheckResult(ChildFrame(f, u), rcb)))

\* The URL of the child invocation running under stack[i], if any.
RunningChild(i) == IF i < Len(stack) THEN <<stack[i + 1].url>> ELSE <<>>

\* The index stack[i], at work on the child URLs `list`: what is left to do,
\* the running child first, is the end of the list, and the children stored
\* are the nodes of the URLs before that, in order.
ChildrenInOrder(i, list) ==
    LET f    == stack[i]
        rest == RunningChild(i) \o f.pending
        k    == Len(list) - Len(rest)
    IN /\ k >= 0
       /\ rest = SubSeq(list, k + 1, Len(list))
       /\ ChildUrls(f.children) = Attached(f, SubSeq(list, 1, k))

\* The url-set nodes of a tree, in walk order.
PagesNodes(node) == SelectSeq(all_sitemaps(node), LAMBDA n : n.variant = "pages")

\* C3: partial-failure containment.  An index whose child list holds n URLs
\* (the discovered list, as filtered by the callbacks when they are
\* supplied) becomes a valid index node with exactly n children, the i-th
\* for the i-th URL, whether that child is valid or an InvalidSitemap (its
\* fetch failed, its format is unrecognized, it closes a cycle or lies below
\* the depth limit); and all_pages() of the finished tree yields exactly the
\* pages of the url-set documents that were served, one per valid url-set
\* node.
C3_PartialFailure ==
    /\ \A i \in 1..Len(stack) :
          LET f == stack[i]
          IN /\ ~lcb.supplied => f.listed = f.discovered
             /\ ~rcb.supplied => Attached(f, f.listed) = f.listed
             /\ f.pc = "children" => ChildrenInOrder(i, f.listed)
             /\ (f.pc = "done" /\ f.gets > 0 /\ f.discovered # <<>>)
                   => /\ f.result.variant = "index"
                      /\ Len(f.result.children) = Len(Attached(f, f.listed))
                      /\ ChildUrls(f.result.children) = Attached(f, f.listed)
    /\ tree # NoNode
          => /\ Range(all_pages(tree)) = served
             /\ all_pages(tree) = Concat([k \in 1..Len(PagesNodes(tree)) |->
                                             PagesNodes(tree)[k].pages])

\* An index with three children of which the second answers 404: three
\* children, two valid, and the pages of the two valid branches.
C3_Witness ==
    /\ FetchDone
    /\ tree = IndexSitemap("a.xml",
                <<PagesSitemap("b.xml", <<PageOf("b.xml")>>),
                  InvalidSitemap("c.xml", "fetch failed"),
                  PagesSitemap("d.xml", <<PageOf("d.xml")>>)>>)
    /\ all_pages(tree) = <<PageOf("b.xml"), PageOf("d.xml")>>

NodeUrls(node) == {all_sitemaps(node)[k].url : k \in 1..Len(all_sitemaps(node))}

PageSitemaps(node) == {all_pages(node)[k].sitemap : k \in 1..Len(all_pages(node))}

\* C4 as claimed: a URL the list callback removed (from any list) is never
\* requested, is no node of all_sitemaps() and has no page in all_pages().
C4_Original ==
    \A u \in removed :
        /\ u \notin requested
        /\ tree # NoNode => (u \notin NodeUrls(tree) /\ u \notin PageSitemaps(tree))

\* C4 as amended: the list callback is applied once per parent index, before
\* any child is fetched, and the children fetched for that parent are exactly
\* the URLs it kept, in order (each leaves a node unless a recurse_callback
\* rejects it): a removed URL has no invocation and no node under that
\* parent.  A URL is requested, is a node or contributes a page only if it
\* is the root or some list kept it.
C4_ListCallbackFiltering ==
    /\ \A i \in 1..Len(stack) :
          LET f    == stack[i]
              keep == IF lcb.supplied
                      THEN recurse_list_callback(lcb, f.discovered, f.recursion_level,
                                                 f.parent_urls)
                      ELSE f.discovered
          IN /\ f.lcb_calls = IF lcb.supplied /\ f.gets > 0 /\ f.result.variant \in {"none", "index"}
                                 /\ f.pc \in {"children", "done"}
                              THEN 1 ELSE 0
             /\ f.pc = "children"
                   => ChildrenInOrder(i, keep)
             /\ (f.pc = "done" /\ f.result.variant = "index")
                   => ChildUrls(f.result.children) = Attached(f, keep)
             /\ i > 1 => f.url \in kept
    /\ requested \subseteq ({RootUrl} \cup kept)
    /\ tree # NoNode
          => /\ NodeUrls(tree) \subseteq ({RootUrl} \cup kept)
             /\ PageSitemaps(tree) \subseteq ({RootUrl} \cup kept)

\* The index c below the root lists b and d, the callback removes b: the
\* node of c holds the one child d, and b was never requested.
C4_Witness ==
    /\ lcb.supplied
    /\ Len(stack) = 2
    /\ stack[2].pc = "done"
    /\ stack[2].discovered = <<"b.xml", "d.xml">>
    /\ stack[2].result = IndexSitemap("c.xml", <<PagesSitemap("d.xml", <<PageOf("d.xml")>>)>>)
    /\ removed = {"b.xml"}
    /\ requested = {"a.xml", "c.xml", "d.xml"}

\* C5, the placeholder: an invocation of fetch for a URL the supplied
\* recurse_callback rejects issues no request, and the InvalidSitemap
\* placeholder it returns stands for that URL in the result, as a child of
\* the index that listed the URL.
C5_FilteredPlaceholder ==
    \A i \in 1..Len(stack) :
        LET f == stack[i]
        IN /\ IsFiltered(f.result) => f.gets = 0
           /\ (f.pc = "done" /\ f.result.variant = "index")
                 => \A k \in 1..Len(f.listed) :
                       IsFiltered(CheckResult(ChildFrame(f, f.listed[k]), rcb))
                          => \E n \in 1..Len(f.result.children) :
                                f.result.children[n]
                                   = InvalidSitemap(f.listed[k], "filtered by callback")

(***************************************************************************)
(* Claims about the retrying fetch helper (SpecRetry).                     *)
(***************************************************************************)
IsRetryableError(resp) == resp.type = "error" /\ resp.retryable

IsSuccess(resp) == resp.type = "success"

\* TRUE when the first k responses of the call history are retryable errors.
FirstAreRetryable(k) == \A i \in 1..k : IsRetryableError(rcalls[i])

\* C6: retry then success.  For every k below the attempt cap: while get has
\* returned a retryable error on each of its first k calls the helper goes on
\* to call k+1, and when call k+1 returns a success response the helper
\* returns that response, get having been invoked exactly k+1 times.
C6_RetryThenSuccess ==
    \A k \in 0..(RETRY_COUNT - 1) :
        /\ (Len(rcalls) = k /\ FirstAreRetryable(k)) => rpc = "loop"
        /\ (Len(rcalls) >= k + 1 /\ FirstAreRetryable(k) /\ IsSuccess(rcalls[k + 1]))
              => /\ rpc = "done"
                 /\ rresult = rcalls[k + 1]
                 /\ Len(rcalls) = k + 1

\* A retryable error on the first call, a success on the second: the helper
\* returned the success after exactly two calls.
C6_Witness ==
    /\ rpc = "done"
    /\ Len(rcalls) = 2
    /\ IsRetryableError(rcalls[1])
    /\ IsSuccess(rcalls[2])
    /\ rresult = rcalls[2]

\* C7: bounded retry.  The helper never calls get more than RETRY_COUNT
\* times; it returns the response of its last call; a non-retryable error is
\* returned by the call that got it (after exactly one call when it is the
\* first response); and RETRY_COUNT retryable errors in a row end the call
\* with the last of them.
C7_BoundedRetry ==
    LET n == Len(rcalls) IN
    /\ n <= RETRY_COUNT
    /\ rpc = "loop" => n < RETRY_COUNT
    /\ rpc = "done" => n >= 1 /\ rresult = rcalls[n]
    /\ \A i \in 1..n :
          (IsErrorResponse(rcalls[i]) /\ ~rcalls[i].retryable)
              => rpc = "done" /\ n = i /\ rresult = rcalls[i]
    /\ (n = RETRY_COUNT /\ FirstAreRetryable(n))
          => rpc = "done" /\ rresult = rcalls[RETRY_COUNT]

\* The client answered with retryable errors only: the helper gave up at the
\* cap and returned the last error.
C7_Witness ==
    /\ rpc = "done"
    /\ Len(rcalls) = RETRY_COUNT
    /\ FirstAreRetryable(RETRY_COUNT)
    /\ rresult = rcalls[RETRY_COUNT]

(***************************************************************************)
(* Claims about robots.txt discovery (SpecDiscover).                       *)
(***************************************************************************)

\* An absolute HTTP(S) URL, as the specification words it.
IsAbsoluteHttpUrl(url) ==
    /\ url.scheme = "http" \/ url.scheme = "https"
    /\ url.host # ""

\* C8: validation before network.  For a homepage_url that is not an
\* absolute HTTP(S) URL, both entry points end in the validation error as
\* their first step, with no web client constructed and no get issued.
C8_ValidationBeforeNetwork ==
    ~IsAbsoluteHttpUrl(dhomepage)
        => /\ dpc \in {"start", "raised"}
           /\ dclient = "none"
           /\ drequests = <<>>

\* discover_sitemap_urls_from_robots, called without a client on a URL that
\* is not HTTP(S), has raised.
C8_Witness ==
    /\ dentry = "discover"
    /\ ~IsAbsoluteHttpUrl(dhomepage)
    /\ ~dsupplied
    /\ dpc = "raised"

\* A line that carries the sitemap directive: "sitemap" or "site-map" in any
\* letter case, a colon, and some text after it.
IsDirective(line) ==
    /\ line.key \in {"Sitemap", "SITE-MAP"}
    /\ line.value # EmptyText

\* The index of the first line of body that is a directive with value v.
FirstLineOf(body, v) ==
    CHOOSE i \in 1..Len(body) :
        /\ IsDirective(body[i]) /\ body[i].value = v
        /\ \A j \in 1..(i - 1) : ~(IsDirective(body[j]) /\ body[j].value = v)

\* C9: discovery result.  On a success response the list returned holds
\* exactly the values of the directive lines that are absolute HTTP(S) URLs,
\* each once, ordered by the line of their first occurrence; directives
\* with other values are dropped wherever they stand.
C9_DiscoveryResult ==
    (dpc = "returned" /\ IsSuccess(dresponse)) =>
        LET body == dresponse.body
            good == {body[i].value : i \in {j \in 1..Len(body) :
                        IsDirective(body[j]) /\ IsAbsoluteHttpUrl(body[j].value)}}
        IN /\ Range(dreturn) = good
           /\ Len(dreturn) = Cardinality(good)
           /\ \A i, j \in 1..Len(dreturn) :
                 i < j => FirstLineOf(body, dreturn[i]) < FirstLineOf(body, dreturn[j])

\* A body whose first directive has a relative value, followed by the
\* directives for B, A and B again: the call returned B, A.
C9_Witness ==
    /\ dpc = "returned"
    /\ IsSuccess(dresponse)
    /\ Len(dresponse.body) = MaxLines
    /\ dresponse.body[1] = Line(FALSE, "Sitemap", RelativeR)
    /\ dresponse.body[2] = Line(FALSE, "SITE-MAP", SitemapB)
    /\ dresponse.body[3] = Line(TRUE, "Sitemap", SitemapA)
    /\ dreturn = <<SitemapB, SitemapA>>

\* C10: discovery absorbs fetch failure.  Once the homepage URL passed
\* validation the call raises nothing, and it returns the empty list when
\* the helper ended in an error response or the body has no directive.
C10_AbsorbsFailure ==
    /\ (dentry = "discover" /\ IsAbsoluteHttpUrl(dhomepage)) => dpc # "raised"
    /\ (dpc = "returned" /\ IsErrorResponse(dresponse)) => dreturn = <<>>
    /\ (dpc = "returned" /\ IsSuccess(dresponse)
          /\ \A i \in 1..Len(dresponse.body) : ~IsDirective(dresponse.body[i]))
        => dreturn = <<>>

\* The retries ran out on a retryable error (a 503): the call returned the
\* empty list.
C10_Witness ==
    /\ dpc = "returned"
    /\ Len(drequests) = RETRY_COUNT
    /\ IsErrorResponse(dresponse)
    /\ dresponse.code = 503
    /\ dreturn = <<>>

\* <origin>/robots.txt of a homepage URL: its scheme and host, and the path
\* /robots.txt.
OriginRobotsTxt(url) == Url(url.scheme, url.host, <<"/", "robots.txt">>)

\* C11: discovery fetches only robots.txt.  Every URL the call requests from
\* the web client is <origin>/robots.txt of the homepage URL, whatever path,
\* query or trailing slash the homepage URL has; the requests are the
\* attempts of the one helper call, and no sitemap URL of the list returned
\* is requested.
C11_OnlyRobotsTxt ==
    /\ \A i \in 1..Len(drequests) : drequests[i] = OriginRobotsTxt(dhomepage)
    /\ Len(drequests) <= RETRY_COUNT
    /\ dresponse # NoResponse => Len(drequests) >= 1
    /\ \A i \in 1..Len(dreturn) :
          dreturn[i] # OriginRobotsTxt(dhomepage) => dreturn[i] \notin Range(drequests)

\* The homepage URL has a path and a query, robots.txt names two sitemaps:
\* the call returned both after the one request for /robots.txt.
C11_Witness ==
    /\ dpc = "returned"
    /\ dhomepage = Url("http", "example.com", <<"/", "page", "?x=1">>)
    /\ drequests = <<Url("http", "example.com", <<"/", "robots.txt">>)>>
    /\ dreturn = <<SitemapA, SitemapB>>

\* C20: client ownership.  The only method the call invokes on the web
\* client is get: it never closes a client the caller supplied and calls no
\* configuration mutator on it, whether it returns URLs, returns the empty
\* list for an error response, or raises the validation error (when it has
\* called nothing at all).
C20_ClientOwnership ==
    /\ \A i \in 1..Len(dcalls) : dcalls[i] = "get"
    /\ Len(dcalls) = Len(drequests) + (IF dpc = "sleep" THEN 1 ELSE 0)
    /\ dpc = "raised" => dcalls = <<>>
    /\ dsupplied => dclient \in {"none", "caller"}

\* Called with the caller's client, the call returned the empty list for an
\* error response after one get, and nothing else, on that client.
C20_Witness ==
    /\ dentry = "discover"
    /\ dsupplied
    /\ dclient = "caller"
    /\ dpc = "returned"
    /\ IsErrorResponse(dresponse)
    /\ dcalls = <<"get">>

(***************************************************************************)
(* Claims about HttpxWebClient (SpecClient).                               *)
(***************************************************************************)

\* The positions in the history where a call of get ended.
GetEnds == {i \in 1..Len(hlog) : hlog[i].op = "get" /\ hlog[i].ev \in {"return", "raise"}}

GetReturns == {i \in GetEnds : hlog[i].ev = "return"}

Is2xx(outcome) == outcome.kind = "status" /\ outcome.code \in 200..299

IsTransientStatus(outcome) ==
    outcome.kind = "status" /\ outcome.code \in {429, 500, 502, 503, 504}

\* C12: error classification of get.  The response returned is a success
\* response exactly when the request ended in a 2xx status; it is an error
\* response with retryable = true exactly when the request timed out or the
\* status is one of the transient ones; a connection or DNS failure and
\* every other status outside 2xx give an error response with
\* retryable = false.
C12_ErrorClassification ==
    \A i \in GetReturns :
        LET o == hlog[i].outcome
            r == hlog[i].result.resp
        IN /\ (r.type = "success") <=> Is2xx(o)
           /\ (r.type = "error" /\ r.retryable) <=> (o.kind = "timeout" \/ IsTransientStatus(o))
           /\ (o.kind = "http_error" \/ (o.kind = "status" /\ ~Is2xx(o) /\ ~IsTransientStatus(o)))
                 => (r.type = "error" /\ ~r.retryable)

\* Three gets: a timeout (retryable), a 404 (not retryable) and a 299
\* (success).
C12_Witness ==
    /\ Cardinality(GetReturns) = 3
    /\ \E i, j, k \in GetReturns :
          /\ i < j /\ j < k
          /\ hlog[i].outcome.kind = "timeout" /\ hlog[i].result.resp = ErrorResponse(0, TRUE)
          /\ hlog[j].outcome.code = 404 /\ hlog[j].result.resp = ErrorResponse(404, FALSE)
          /\ hlog[k].outcome.code = 299 /\ hlog[k].result.resp.type = "success"

\* C13 as claimed: get is total over outcomes.  Every call of get that has
\* ended returned a success response or an error response; none ended with
\* an exception leaving get.
C13_GetIsTotal ==
    \A i \in GetEnds :
        /\ hlog[i].ev = "return"
        /\ ~hlog[i].result.raised
        /\ hlog[i].result.resp.type \in {"success", "error"}

\* C14 as claimed: truncation.  With the cap set to an integer N (0
\* included) when get returns a success response, raw_data() of the response
\* has at most N bytes, and exactly N when the body has more.
C14_Truncation ==
    \A i \in GetReturns :
        LET e == hlog[i]
        IN (e.result.resp.type = "success" /\ ~e.cap.none)
              => /\ Len(raw_data(e.result)) <= e.cap.n
                 /\ Len(e.result.resp.body) > e.cap.n => Len(raw_data(e.result)) = e.cap.n

\* C15 as claimed: configuration mutators take effect on subsequent calls.
\* Every request is made by a transport that has the timeout and the proxy
\* configured on the client when the request is made (the arguments of the
\* latest set_timeout and set_proxy, or the defaults).
C15_MutatorsEffective ==
    \A i \in 1..Len(hlog) :
        hlog[i].ev = "request"
            => /\ htransports[hlog[i].tr].timeout = hlog[i].timeout
               /\ htransports[hlog[i].tr].proxy = hlog[i].proxy

GetCalls == {i \in 1..Len(hlog) : hlog[i].ev = "call" /\ hlog[i].op = "get"}

Sleeps == {i \in 1..Len(hlog) : hlog[i].ev = "sleep"}

\* C16: inter-request throttle.  On a client with wait w > 0 and random_wait
\* off, every call of get but the first starts with one sleep of duration
\* w, before its request and whatever the calls end in, and the first
\* starts without one: n calls make n - 1 sleeps.  On a client without a wait
\* no call sleeps.
C16_Throttle ==
    /\ hwait = 0 => Sleeps = {}
    /\ (hwait > 0 /\ ~hrandom) =>
          /\ \A i \in GetCalls :
                IF \A j \in GetCalls : j >= i
                THEN i < Len(hlog) => hlog[i + 1].ev # "sleep"
                ELSE /\ i < Len(hlog)
                     /\ hlog[i + 1].ev = "sleep"
                     /\ hlog[i + 1].d = Exactly(hwait)
                     /\ i + 1 < Len(hlog) => hlog[i + 2].ev # "sleep"
          /\ \A j \in Sleeps : j - 1 \in GetCalls
          /\ GetCalls # {} => Cardinality(Sleeps) = Cardinality(GetCalls) - 1

\* Three gets on a client with a wait of two seconds, a failed one among
\* them: two sleeps of two seconds, before the second and the third request.
C16_Witness ==
    /\ hwait = 2 /\ ~hrandom
    /\ Cardinality(GetEnds) = 3
    /\ \E i \in GetEnds : hlog[i].result.resp.type = "error"
    /\ Cardinality(Sleeps) = 2
    /\ \A j \in Sleeps : hlog[j].d = Exactly(2) /\ hlog[j + 1].ev = "request"

\* A step that is a call of close on a client that has given no request to
\* any transport since it was constructed, or that holds no transport.
CloseWithoutRequest ==
    /\ hclient = NoClient \/ \A j \in 1..Len(hlog) : hlog[j].ev # "request"
    /\ Len(hlog') > Len(hlog)
    /\ hlog'[Len(hlog) + 1].ev = "call"
    /\ hlog'[Len(hlog) + 1].op = "close"

\* C17 as claimed: aclose is called at most once on each transport, and a
\* close on a client that is closed already or that never issued a request
\* calls no aclose and changes nothing of the client.
C17_Original ==
    /\ [](\A k \in 1..Len(htransports) : htransports[k].acloses <= 1)
    /\ [][CloseWithoutRequest
            => /\ UNCHANGED <<hmax, htimeout, hproxy, hwait, hrandom, hfirst,
                              hclient, htransports, htask>>
               /\ \A j \in (Len(hlog) + 1)..Len(hlog') : hlog'[j].ev # "aclose"]_vars

\* A step that is a call of close on a client that holds no transport.
CloseWithoutClient ==
    /\ hclient = NoClient
    /\ Len(hlog') > Len(hlog)
    /\ hlog'[Len(hlog) + 1].ev = "call"
    /\ hlog'[Len(hlog) + 1].op = "close"

\* C17: close is idempotent.  In a sequential history of get and close
\* calls aclose is called at most once on each transport, and a close on a
\* client that holds no transport (closed already, or no get has built one)
\* returns at once, calls no aclose and changes nothing of the client.
C17_CloseIdempotent ==
    /\ [](\A k \in 1..Len(htransports) : htransports[k].acloses <= 1)
    /\ [][CloseWithoutClient
            => /\ UNCHANGED <<hmax, htimeout, hproxy, hwait, hrandom, hfirst,
                              hclient, htransports, htask>>
               /\ Len(hlog') = Len(hlog) + 2
               /\ hlog'[Len(hlog) + 2].ev = "return"]_vars

\* get, close, close: the first close closed the transport of the get, the
\* second found no client and returned at once.
C17_Witness ==
    /\ Len(hlog) = 8
    /\ hlog[1].op = "get" /\ hlog[2].ev = "request"
    /\ hlog[4].op = "close" /\ hlog[5].ev = "aclose" /\ hlog[5].tr = 1
    /\ hlog[7].ev = "call" /\ hlog[7].op = "close" /\ hlog[8].ev = "return"
    /\ hclient = NoClient
    /\ Len(htransports) = 1
    /\ htransports[1].acloses = 1

(***************************************************************************)
(* Claims about the tree entry point (SpecTree) and the order of the       *)
(* fetches (SpecFetch).                                                    *)
(***************************************************************************)

\* The fetches started for the URL <origin>/<path> of the homepage URL.
FetchesOfPath(path) ==
    {i \in 1..Len(tfetches) :
        tfetches[i].url = Url(dhomepage.scheme, dhomepage.host, <<"/", path>>)}

\* C18: seeding of extra paths.  Every fetch the entry point starts has
\* recursion_level 0, no parent_urls, an empty sitemap_chain and the web
\* client and callbacks of the call; the fetch for a path of
\* extra_known_paths has quiet_404 = true and the fetch for a sitemap
\* robots.txt declares has quiet_404 = false; and when the call returns, one
\* fetch was started for <origin>/<path> of every path in extra_known_paths.
C18_SeedingExtraPaths ==
    /\ \A i \in 1..Len(tfetches) :
          LET f == tfetches[i]
          IN /\ f.recursion_level = 0
             /\ f.parent_urls = {}
             /\ f.sitemap_chain = <<>>
             /\ f.web_client = dclient
             /\ dsupplied => f.web_client = "caller"
             /\ f.recurse_callback = tcallbacks[1]
             /\ f.recurse_list_callback = tcallbacks[2]
             /\ f.url \in Range(tdeclared) => ~f.quiet_404
             /\ (\E p \in textra : i \in FetchesOfPath(p)) => f.quiet_404
    /\ tpc = "returned"
          => /\ \A p \in textra : Cardinality(FetchesOfPath(p)) = 1
             /\ \A u \in Range(tdeclared) : \E i \in 1..Len(tfetches) : tfetches[i].url = u

\* Called with the caller's client, callbacks and two extra paths on a site
\* whose robots.txt declares one sitemap: the call returned after the fetch
\* of the declared sitemap (quiet_404 false) and one quiet fetch per path.
C18_Witness ==
    /\ tpc = "returned"
    /\ dsupplied
    /\ tcallbacks[1].supplied
    /\ textra = ExtraPaths
    /\ tdeclared = <<SitemapA>>
    /\ tfetches[1].url = SitemapA /\ ~tfetches[1].quiet_404
    /\ \E i \in FetchesOfPath("custom_sitemap.xml") :
          /\ tfetches[i].quiet_404
          /\ tfetches[i].web_client = "caller"
          /\ tfetches[i].recursion_level = 0
    /\ Len(troot.children) = Len(tfetches)

\* The parent of the invocation that runs.
Parent == stack[Len(stack) - 1]

\* What a step of the fetch may do to the requests and the invocations.
DepthFirstStep ==
    /\ requested' # requested
          => stack # <<>> /\ requested' = requested \cup {Top.url}
    /\ Len(stack') = Len(stack) + 1
          => LET k == Len(Top.listed) - Len(Top.pending)
             IN /\ Top.pc = "children"
                /\ ChildUrls(Top.children) = Attached(Top, SubSeq(Top.listed, 1, k))
                /\ stack'[Len(stack')].url = Top.listed[k + 1]
                /\ stack'[Len(stack')].pc = "check"
    /\ (Len(stack') = Len(stack) - 1 /\ Len(stack) >= 2)
          => LET k == Len(Parent.listed) - Len(Parent.pending)
             IN /\ Top.pc = "done"
                /\ Top.result.url = Parent.listed[k]
                /\ stack'[Len(stack')].children
                      = IF IsFiltered(Top.result)
                        THEN Parent.children
                        ELSE Append(Parent.children, Top.result)

\* C19: sequential depth-first ordering.  Only the innermost invocation
\* runs, every other one waits for the child it started: one fetch is in
\* flight at a time.  An index has stored the complete nodes of the first k
\* URLs of its filtered list, in list order, when it starts the fetch of
\* URL k + 1, and it starts none before the running child has returned with
\* its whole subtree; the children of a finished index are the nodes of its
\* filtered list, in that order.
C19_DepthFirstOrder ==
    /\ [](\A i \in 1..Len(stack) :
            LET f == stack[i]
            IN /\ i < Len(stack) => f.pc = "children"
               /\ f.pc = "children"
                     => /\ ChildrenInOrder(i, f.listed)
                        /\ \A k \in 1..Len(f.children) :
                              f.children[k].variant \in {"index", "pages", "invalid"}
               /\ (f.pc = "done" /\ f.result.variant = "index")
                     => ChildUrls(f.result.children) = Attached(f, f.listed))
    /\ [][DepthFirstStep]_vars

\* The root lists b and d, and b lists c: c was fetched and stored under b
\* before the fetch of d started; the root holds b, then d.
C19_Witness ==
    /\ FetchDone
    /\ tree = IndexSitemap("a.xml",
                <<IndexSitemap("b.xml", <<PagesSitemap("c.xml", <<PageOf("c.xml")>>)>>),
                  PagesSitemap("d.xml", <<PageOf("d.xml")>>)>>)
    /\ requested = FetchUrls

(***************************************************************************)
(* The client shared by concurrent tasks.                                  *)
(***************************************************************************)

\* The calls of get that went on without a sleep: the entry after the call
\* (written in the same step) is no sleep of its task.
Skips ==
    {i \in GetCalls : ~(i < Len(hlog) /\ hlog[i + 1].ev = "sleep"
                                      /\ hlog[i + 1].task = hlog[i].task)}

\* The entries where get called client.get(url) on a transport (line 191):
\* the transport took the request, or the call raised an exception that
\* left get (the transport refused the request, or the URL has no parse).
GetIssues ==
    {j \in 1..Len(hlog) : hlog[j].op = "get" /\ hlog[j].tr # 0
                             /\ hlog[j].ev \in {"request", "raise"}}

\* The call of get that entry j belongs to: the last call of its task.
CallOf(j) ==
    CHOOSE i \in GetCalls :
        /\ i < j /\ hlog[i].task = hlog[j].task
        /\ \A k \in GetCalls : (k < j /\ hlog[k].task = hlog[j].task) => k <= i

\* C21: throttle under concurrency.  When tasks call get concurrently on one
\* client with wait > 0, under every interleaving at most one call over the
\* life of the client goes on without a sleep (the first one; the
\* first-request flag is set exactly while no get was called), and every other
\* call sleeps, once and for a duration of the configured wait, before it
\* gives its request to the transport.
C21_ConcurrentThrottle ==
    hwait > 0 =>
       LET calls  == GetCalls
           skips  == Skips
           issues == GetIssues
       IN /\ Cardinality(skips) <= 1
          /\ \A i \in skips : \A k \in calls : i <= k
          /\ hfirst = (calls = {})
          /\ \A j \in issues :
                LET c == CallOf(j)
                IN \/ c \in skips /\ j = c + 1
                   \/ /\ c \notin skips
                      /\ hlog[c + 1].d = SleepDurations(hwait, hrandom)
                      /\ c + 1 < j
          /\ \A j \in Sleeps : j - 1 \in calls \ skips
          /\ \A t \in Tasks : htask[t].pc = "sleep" =>
                \E i \in calls \ skips :
                   /\ hlog[i].task = t
                   /\ \A j \in issues : hlog[j].task = t => j < i

\* Three gets on a shared client with a wait: the first went on at once, the
\* other two, called by different tasks while none of them had ended, both
\* slept and have their requests in flight together.
C21_Witness ==
    /\ hwait > 0
    /\ Cardinality(GetCalls) = 3
    /\ Cardinality(Skips) = 1
    /\ Cardinality(Sleeps) = 2
    /\ \A t \in Tasks : htask[t].pc = "inflight"
    /\ \E i, j \in Sleeps :
          /\ j = i + 2
          /\ hlog[i].task # hlog[j].task

\* The entries where close called aclose on a transport (line 219).
Acloses == {i \in 1..Len(hlog) : hlog[i].ev = "aclose"}

\* C22: get/close interleaving safety.  Under every interleaving of
\* concurrent get and close calls on one client, no get calls client.get(url)
\* on a transport on which a close has called aclose before, and no two
\* calls of aclose are made on one transport.  (What is counted are the
\* calls the client makes: a transport whose aclose has begun refuses the
\* request with an exception that leaves get, and ignores a further aclose.)
C22_GetCloseSafety ==
    /\ \A j \in GetIssues : \A i \in Acloses : hlog[i].tr = hlog[j].tr => j < i
    /\ \A k \in 1..Len(htransports) : htransports[k].acloses <= 1

(***************************************************************************)
(* The transport of the client in a sequential history.                    *)
(***************************************************************************)

OpenTransports == {k \in 1..Len(htransports) : htransports[k].state = "open"}

\* The entries where a call of close begins.
CloseCalls == {i \in 1..Len(hlog) : hlog[i].ev = "call" /\ hlog[i].op = "close"}

\* The first entry of the history that names transport k.
FirstUse(k) ==
    CHOOSE j \in 1..Len(hlog) :
        hlog[j].tr = k /\ \A i \in 1..Len(hlog) : hlog[i].tr = k => j <= i

\* What a step may do to the transports: build one, in a get on a client
\* that holds none, from the timeout and proxy the client has then; close
\* the one the client holds, in a close that calls aclose on it; let go of
\* it, at the end of a close, closed.
LifecycleStep ==
    /\ Len(htransports') >= Len(htransports)
    /\ Len(htransports') > Len(htransports) =>
          /\ hclient = NoClient
          /\ Len(htransports') = Len(htransports) + 1
          /\ hclient' = Len(htransports')
          /\ htransports'[hclient'].timeout = htimeout
          /\ htransports'[hclient'].proxy = hproxy
          /\ htransports'[hclient'].state = "open"
          /\ hlog'[Len(hlog')].op = "get"
    /\ \A k \in 1..Len(htransports) :
          htransports'[k].state # htransports[k].state =>
             /\ k = hclient
             /\ htransports[k].state = "open"
             /\ \E j \in (Len(hlog) + 1)..Len(hlog') :
                   /\ hlog'[j].ev = "aclose"
                   /\ hlog'[j].op = "close"
                   /\ hlog'[j].tr = k
    /\ (hclient # NoClient /\ hclient' # hclient) =>
          /\ hclient' = NoClient
          /\ htransports'[hclient].state = "closed"
          /\ hlog'[Len(hlog')].ev = "return"
          /\ hlog'[Len(hlog')].op = "close"

\* C23: lazy transport lifecycle.  In a sequential history of get and close
\* calls the client holds at most one open transport, the one it refers to;
\* there is none before the first get; every get that reaches client.get
\* uses a transport no aclose was called on, which a get after a close has
\* to build, from the timeout and proxy current then (a get ends without a
\* transport only when the constructor rejected the proxy); a transport
\* stays open until the next close.  So between calls a transport is open
\* exactly when no close was called after the last get that got one.
C23_LazyLifecycle ==
    /\ [](/\ Cardinality(OpenTransports) <= 1
          /\ \A k \in OpenTransports : hclient = k
          /\ GetCalls = {} => htransports = <<>>
          /\ Len(htransports) <= Cardinality(GetCalls)
          /\ \A j \in GetIssues : \A i \in Acloses : hlog[i].tr = hlog[j].tr => j < i
          /\ \A j \in GetEnds :
                hlog[j].tr = 0 => hlog[j].ev = "raise" /\ hlog[j].proxy = "bad"
          /\ \A k \in 1..Len(htransports) :
                /\ hlog[FirstUse(k)].op = "get"
                /\ htransports[k].timeout = hlog[FirstUse(k)].timeout
                /\ htransports[k].proxy = hlog[FirstUse(k)].proxy
          /\ (\A t \in Tasks : htask[t].pc = "idle") =>
                /\ hclient = NoClient <=> OpenTransports = {}
                /\ OpenTransports # {} <=>
                      /\ GetIssues # {}
                      /\ \A i \in CloseCalls : \E j \in GetIssues : i < j)
    /\ [][LifecycleStep]_vars

\* get, close, get: the first transport is closed, the second get built a
\* second one, which is open and stays with the client.
C23_Witness ==
    /\ \A t \in Tasks : htask[t].pc = "idle"
    /\ Len(htransports) = 2
    /\ htransports[1].state = "closed" /\ htransports[1].acloses = 1
    /\ htransports[2].state = "open" /\ htransports[2].requests = 1
    /\ hclient = 2
    /\ Cardinality(GetReturns) = 2
    /\ Cardinality(CloseCalls) = 1

(***************************************************************************)
(* The cap held by a response.                                             *)
(***************************************************************************)

\* The entries where get returned a success response.
SuccessReturns == {i \in GetReturns : hlog[i].result.resp.type = "success"}

\* A step leaves every response returned before it, and what raw_data gives
\* for it, as it was.
SnapshotStep ==
    \A i \in SuccessReturns :
        /\ i <= Len(hlog')
        /\ hlog'[i].result = hlog[i].result
        /\ raw_data(hlog[i].result)' = raw_data(hlog[i].result)

\* C24: response snapshot.  A success response holds the cap the client had
\* when get returned it, and raw_data() is the body cut by that cap (the
\* whole body without one), whatever the cap of the client is afterwards: a
\* later set_max_response_data_length changes the responses of later gets
\* only, and raw_data() of a response gives the same bytes at every call.
C24_ResponseSnapshot ==
    /\ [](\A i \in SuccessReturns :
            LET e == hlog[i]
            IN /\ e.result.cap = e.cap
               /\ raw_data(e.result) = IF Truthy(e.cap)
                                        THEN Slice(e.result.resp.body, e.cap.n)
                                        ELSE e.result.resp.body)
    /\ [][SnapshotStep]_vars

\* A get without a cap, set_max_response_data_length(2), a get: the first
\* response still gives its whole body, longer than the cap the client has
\* now, and the second one gives two bytes.
C24_Witness ==
    \E i, j \in SuccessReturns :
        /\ i < j
        /\ hlog[i].cap = NoCap
        /\ hlog[j].cap = Cap(2)
        /\ hmax = Cap(2)
        /\ hlog[i].result.resp.body = Content(MaxBody)
        /\ hlog[j].result.resp.body = Content(MaxBody)
        /\ raw_data(hlog[i].result) = Content(MaxBody)
        /\ raw_data(hlog[j].result) = Content(2)

====
